---------------------------- MODULE Spec2Model ----------------------------
(***************************************************************************)
(* Model of package semver (src/main.go): the Version value, its setters,  *)
(* the formatter String, the parser NewVersionFromString built on the      *)
(* regular expression reSemVer, IsValidVersionString and SortVersions.     *)
(*                                                                         *)
(* A Go string is a sequence of one-character strings.  A *Version is an   *)
(* object identifier into heap.                                            *)
(***************************************************************************)
EXTENDS Integers, Sequences, FiniteSets, TLC

VARIABLES
  heap,      \* object id -> Version record, for the allocated objects
  op,        \* name of the last call made on the receiver / the package
  ret,       \* pointer returned by the last call ("nil": it returns none)
  err,       \* error returned by the last call ("" is nil)
  str,       \* text argument of the last call
  elems,     \* suffix segments argument of the last call
  out,       \* text returned by the last call to String
  input,     \* parse pipeline: the text handed to the parser
  pc,        \* parse pipeline: position of the caller
  parsed,    \* parse pipeline: Version returned by NewVersionFromString(input)
  perr,      \* parse pipeline: error returned with it
  text,      \* parse pipeline: parsed.String()
  reparsed,  \* parse pipeline: Version returned by NewVersionFromString(text)
  rerr,      \* parse pipeline: error returned with it
  valid,     \* parse pipeline: result of IsValidVersionString(input)
  versions,  \* sort scenario: the slice handed to SortVersions
  sorted     \* sort scenario: TRUE when the last call was SortVersions

vars == <<heap, op, ret, err, str, elems, out, input, pc, parsed, perr, text,
          reparsed, rerr, valid, versions, sorted>>

objVars   == <<heap, op, ret, err, str, elems, out>>
parseVars == <<input, pc, parsed, perr, text, reparsed, rerr, valid>>
sortVars  == <<versions, sorted>>

-----------------------------------------------------------------------------
(* Bounds of the model *)

\* longest text over Alphabet handed to the parser
MaxLen == 3
\* most dot-separated digit runs in a structured parser input
MaxGroups == 4
\* the setters receive integers in -1 .. MaxN
MaxN == 1
\* most segments passed to SetSuffix / Set
MaxSegs == 2
\* longest slice handed to SortVersions
MaxList == 3

-----------------------------------------------------------------------------
(* Strings *)

Digits == {"0", "1", "2", "3", "4", "5", "6", "7", "8", "9"}

IsDigit(c) == c \in Digits

DigitVal(c) ==
  CASE c = "0" -> 0 [] c = "1" -> 1 [] c = "2" -> 2 [] c = "3" -> 3
    [] c = "4" -> 4 [] c = "5" -> 5 [] c = "6" -> 6 [] c = "7" -> 7
    [] c = "8" -> 8 [] c = "9" -> 9

DigitChar(d) ==
  CASE d = 0 -> "0" [] d = 1 -> "1" [] d = 2 -> "2" [] d = 3 -> "3"
    [] d = 4 -> "4" [] d = 5 -> "5" [] d = 6 -> "6" [] d = 7 -> "7"
    [] d = 8 -> "8" [] d = 9 -> "9"

\* byte value of the characters that occur in the modelled texts
ByteOf(c) ==
  CASE c = "\n" -> 10 [] c = "-" -> 45 [] c = "." -> 46
    [] IsDigit(c) -> 48 + DigitVal(c)
    [] c = "V" -> 86 [] c = "X" -> 88
    [] c = "a" -> 97 [] c = "b" -> 98 [] c = "c" -> 99 [] c = "e" -> 101
    [] c = "g" -> 103 [] c = "r" -> 114 [] c = "t" -> 116
    [] c = "v" -> 118 [] c = "x" -> 120

\* s[from..] ; empty when from is past the end
Tail1(s, from) == SubSeq(s, from, Len(s))

\* Go's s < t on strings: bytewise lexicographic, a proper prefix is smaller
RECURSIVE StrLess(_, _)
StrLess(s, t) ==
  IF t = <<>> THEN FALSE
  ELSE IF s = <<>> THEN TRUE
  ELSE IF ByteOf(Head(s)) # ByteOf(Head(t)) THEN ByteOf(Head(s)) < ByteOf(Head(t))
  ELSE StrLess(Tail(s), Tail(t))

\* strings.Join(elements, sep)
RECURSIVE Join(_, _)
Join(elements, sep) ==
  IF elements = <<>> THEN <<>>
  ELSE IF Len(elements) = 1 THEN elements[1]
  ELSE elements[1] \o sep \o Join(Tail(elements), sep)

\* strings.Split(s, sep) for a one-character separator: always >= 1 piece
RECURSIVE Split(_, _)
Split(s, sep) ==
  IF \A i \in 1..Len(s) : s[i] # sep THEN <<s>>
  ELSE LET k == CHOOSE i \in 1..Len(s) :
                  s[i] = sep /\ \A j \in 1..(i-1) : s[j] # sep
       IN <<SubSeq(s, 1, k-1)>> \o Split(Tail1(s, k+1), sep)

-----------------------------------------------------------------------------
(* strconv.Atoi and fmt's %d *)

\* decimal digits of math.MaxInt64, the largest int Atoi returns
MaxIntDigits ==
  <<"9","2","2","3","3","7","2","0","3","6","8","5","4","7","7","5","8","0","7">>

RECURSIVE StripZeros(_)
StripZeros(d) ==
  IF Len(d) > 1 /\ Head(d) = "0" THEN StripZeros(Tail(d)) ELSE d

\* d <= e for digit strings of the same length
RECURSIVE DigitsLeq(_, _)
DigitsLeq(d, e) ==
  IF d = <<>> THEN TRUE
  ELSE IF Head(d) # Head(e) THEN DigitVal(Head(d)) < DigitVal(Head(e))
  ELSE DigitsLeq(Tail(d), Tail(e))

RECURSIVE DigitsValue(_, _)
DigitsValue(d, acc) ==
  IF d = <<>> THEN acc ELSE DigitsValue(Tail(d), 10 * acc + DigitVal(Head(d)))

\* strconv.Atoi on a text without sign, with a 64-bit int: the value, or a
\* syntax error (empty, or a character that is no digit) or a range error
\* (above MaxIntDigits).  Leading zeros are accepted.
Atoi(s) ==
  IF s = <<>> \/ \E i \in 1..Len(s) : ~IsDigit(s[i])
  THEN [ok |-> FALSE, n |-> 0]
  ELSE LET d == StripZeros(s) IN
       IF Len(d) > Len(MaxIntDigits)
          \/ (Len(d) = Len(MaxIntDigits) /\ ~DigitsLeq(d, MaxIntDigits))
       THEN [ok |-> FALSE, n |-> 0]
       ELSE [ok |-> TRUE, n |-> DigitsValue(d, 0)]

RECURSIVE NatDigits(_)
NatDigits(n) ==
  IF n < 10 THEN <<DigitChar(n)>>
  ELSE NatDigits(n \div 10) \o <<DigitChar(n % 10)>>

\* fmt.Sprintf("%d", n)
Itoa(n) == IF n < 0 THEN <<"-">> \o NatDigits(0 - n) ELSE NatDigits(n)

-----------------------------------------------------------------------------
(* type Version and its methods, as functions of the object's fields *)

\* &Version{major: 0, minor: 0, patch: 0, suffix: ""}
NewVersion == [major |-> 0, minor |-> 0, patch |-> 0, suffix |-> <<>>]

\* the Version with the given fields
Ver(major, minor, patch, suffix) ==
  [major |-> major, minor |-> minor, patch |-> patch, suffix |-> suffix]

SetMajor(ver, version) == [ver EXCEPT !.major = version]

SetMinor(ver, version) == [ver EXCEPT !.minor = version]

SetPatch(ver, version) == [ver EXCEPT !.patch = version]

SetSuffix(ver, elements) ==
  LET cleared == [ver EXCEPT !.suffix = <<>>] IN
  IF Len(elements) > 0
  THEN [cleared EXCEPT !.suffix = Join(elements, <<".">>)]
  ELSE cleared

Set(ver, major, minor, patch, suffixes) ==
  SetSuffix(SetPatch(SetMinor(SetMajor(ver, major), minor), patch), suffixes)

\* a plausible slip in String: the minor component is shown only when it is
\* non-zero itself
StringElidesZeroMinor(ver) ==
  LET s == IF ver.minor = 0 /\ ver.patch = 0
           THEN <<"v">> \o Itoa(ver.major)
           ELSE IF ver.patch = 0
           THEN <<"v">> \o Itoa(ver.major) \o <<".">> \o Itoa(ver.minor)
           ELSE IF ver.minor = 0
           THEN <<"v">> \o Itoa(ver.major) \o <<".">> \o Itoa(ver.patch)
           ELSE <<"v">> \o Itoa(ver.major) \o <<".">> \o Itoa(ver.minor)
                        \o <<".">> \o Itoa(ver.patch)
  IN IF ver.suffix # <<>> THEN s \o <<"-">> \o ver.suffix ELSE s

\* a plausible slip in String: the suffix is appended without its hyphen
StringDropsHyphen(ver) ==
  LET s == IF ver.minor = 0 /\ ver.patch = 0
           THEN <<"v">> \o Itoa(ver.major)
           ELSE IF ver.patch = 0
           THEN <<"v">> \o Itoa(ver.major) \o <<".">> \o Itoa(ver.minor)
           ELSE <<"v">> \o Itoa(ver.major) \o <<".">> \o Itoa(ver.minor)
                        \o <<".">> \o Itoa(ver.patch)
  IN IF ver.suffix # <<>> THEN s \o ver.suffix ELSE s

String(ver) ==
  LET s == IF ver.minor = 0 /\ ver.patch = 0
           THEN <<"v">> \o Itoa(ver.major)
           ELSE IF ver.patch = 0
           THEN <<"v">> \o Itoa(ver.major) \o <<".">> \o Itoa(ver.minor)
           ELSE <<"v">> \o Itoa(ver.major) \o <<".">> \o Itoa(ver.minor)
                        \o <<".">> \o Itoa(ver.patch)
  IN IF ver.suffix # <<>> THEN s \o <<"-">> \o ver.suffix ELSE s

-----------------------------------------------------------------------------
(* reSemVer and FindStringSubmatch.  The pattern is, in sequence: an       *)
(* optional v or V; group 1, up to two times "digits then a dot" followed  *)
(* by digits; an optional hyphen; group 2, any characters but a line feed. *)
(* All quantifiers are greedy and the pattern is not anchored.             *)

\* the pattern matches starting at position p: an optional v or V, then a digit
MatchesAt(s, p) ==
  \/ p <= Len(s) /\ IsDigit(s[p])
  \/ p + 1 <= Len(s) /\ s[p] \in {"v", "V"} /\ IsDigit(s[p+1])

\* last position of the greedy \d+ that starts at position i
RECURSIVE RunEnd(_, _)
RunEnd(s, i) ==
  IF i + 1 <= Len(s) /\ IsDigit(s[i+1]) THEN RunEnd(s, i + 1) ELSE i

\* after a digit run ending at e, one more iteration "\." then "\d+" can match
MoreDigits(s, e) == e + 2 <= Len(s) /\ s[e+1] = "." /\ IsDigit(s[e+2])

\* last position of ((?:\d+\.){0,2}\d+) when its first digit is at q: greedy,
\* so as many of the up to three runs as the text offers
NumericEnd(s, q) ==
  LET e1 == RunEnd(s, q) IN
  IF ~MoreDigits(s, e1) THEN e1
  ELSE LET e2 == RunEnd(s, e1 + 2) IN
       IF ~MoreDigits(s, e2) THEN e2 ELSE RunEnd(s, e2 + 2)

\* last position of greedy group 2 starting at position h: its "." matches
\* any character but a line feed
RECURSIVE RestEnd(_, _)
RestEnd(s, h) ==
  IF h <= Len(s) /\ s[h] # "\n" THEN RestEnd(s, h + 1) ELSE h - 1

\* a plausible slip in the pattern: the separating hyphen is not consumed
FindStringSubmatchKeepsHyphen(s) ==
  IF \A p \in 1..Len(s) : ~MatchesAt(s, p) THEN <<>>
  ELSE LET p == CHOOSE i \in 1..Len(s) :
                  MatchesAt(s, i) /\ \A j \in 1..(i-1) : ~MatchesAt(s, j)
           q == IF IsDigit(s[p]) THEN p ELSE p + 1
           e == NumericEnd(s, q)
           z == RestEnd(s, e + 1)
       IN <<SubSeq(s, p, z), SubSeq(s, q, e), SubSeq(s, e + 1, z)>>

\* reSemVer.FindStringSubmatch(s): nil (the empty slice) when no position of s
\* matches, else the leftmost match and its two groups
FindStringSubmatch(s) ==
  IF \A p \in 1..Len(s) : ~MatchesAt(s, p) THEN <<>>
  ELSE LET p == CHOOSE i \in 1..Len(s) :
                  MatchesAt(s, i) /\ \A j \in 1..(i-1) : ~MatchesAt(s, j)
           q == IF IsDigit(s[p]) THEN p ELSE p + 1
           e == NumericEnd(s, q)
           h == IF e + 1 <= Len(s) /\ s[e+1] = "-" THEN e + 2 ELSE e + 1
           z == RestEnd(s, h)
       IN <<SubSeq(s, p, z), SubSeq(s, q, e), SubSeq(s, h, z)>>

-----------------------------------------------------------------------------
(* NewVersionFromString and IsValidVersionString *)

\* The pair (version, err) returned for a text.  err is "" for nil and else
\* the kind of the error: "format" (invalid version format), "major", "minor",
\* "patch" (invalid major / minor / patch version).  matches[1..3] are Go's
\* matches[0..2]; versionNumbers[1..3] are Go's versionNumbers[0..2].  The
\* function is split at its statements; each part receives the object
\* version as the statements before it left it.

\* a plausible slip: the captured suffix is never stored
storeSuffixOmitted(version, matches) ==
  [version |-> version, err |-> ""]

\* version.SetSuffix(matches[2]); return version, nil
storeSuffix(version, matches) ==
  [version |-> SetSuffix(version, <<matches[3]>>), err |-> ""]

\* if len(versionNumbers) == 3 { ... version.SetPatch(patch) }
parsePatch(version, versionNumbers, matches) ==
  IF Len(versionNumbers) = 3
  THEN LET patch == Atoi(versionNumbers[3]) IN
       IF ~patch.ok THEN [version |-> version, err |-> "patch"]
       ELSE storeSuffix(SetPatch(version, patch.n), matches)
  ELSE storeSuffix(version, matches)

\* if len(versionNumbers) >= 2 { ... version.SetMinor(minor) }
parseMinor(version, versionNumbers, matches) ==
  IF Len(versionNumbers) >= 2
  THEN LET minor == Atoi(versionNumbers[2]) IN
       IF ~minor.ok THEN [version |-> version, err |-> "minor"]
       ELSE parsePatch(SetMinor(version, minor.n), versionNumbers, matches)
  ELSE parsePatch(version, versionNumbers, matches)

\* major, err := strconv.Atoi(versionNumbers[0]) ... version.SetMajor(major)
parseMajor(version, versionNumbers, matches) ==
  LET major == Atoi(versionNumbers[1]) IN
  IF ~major.ok THEN [version |-> version, err |-> "major"]
  ELSE parseMinor(SetMajor(version, major.n), versionNumbers, matches)

\* versionNumbers := strings.Split(matches[1], ".") and its length check
parseNumbers(version, matches) ==
  LET versionNumbers == Split(matches[2], ".") IN
  IF Len(versionNumbers) < 1 \/ Len(versionNumbers) > 3
  THEN [version |-> version, err |-> "format"]
  ELSE parseMajor(version, versionNumbers, matches)

NewVersionFromString(s) ==
  LET version == NewVersion
      matches == FindStringSubmatch(s)
  IN IF Len(matches) # 3
     THEN [version |-> version, err |-> "format"]
     ELSE parseNumbers(version, matches)

IsValidVersionString(version) == NewVersionFromString(version).err = ""

-----------------------------------------------------------------------------
(* SortVersions *)

\* a plausible slip: the patch component is skipped
lessSkipsPatch(a, b) ==
  IF a.major # b.major THEN a.major < b.major
  ELSE IF a.minor # b.minor THEN a.minor < b.minor
  ELSE StrLess(a.suffix, b.suffix)

\* the comparison function handed to sort.Slice, on the two elements compared
less(a, b) ==
  IF a.major # b.major THEN a.major < b.major
  ELSE IF a.minor # b.minor THEN a.minor < b.minor
  ELSE IF a.patch # b.patch THEN a.patch < b.patch
  ELSE StrLess(a.suffix, b.suffix)

\* inner loop of the insertion sort: for j := i; j > a && less(j, j-1); j--
\* swaps data[j] and data[j-1]
RECURSIVE insertDown(_, _)
insertDown(data, j) ==
  IF j > 1 /\ less(data[j], data[j-1])
  THEN insertDown([data EXCEPT ![j] = data[j-1], ![j-1] = data[j]], j - 1)
  ELSE data

\* sort.Slice on a slice of at most 12 elements is an insertion sort:
\* for i := a + 1; i < b; i++ { inner loop }
RECURSIVE insertionSort(_, _)
insertionSort(data, i) ==
  IF i > Len(data) THEN data ELSE insertionSort(insertDown(data, i), i + 1)

\* the slice after SortVersions(list)
SortVersions(list) == insertionSort(list, 2)

-----------------------------------------------------------------------------
(* Inputs *)

\* the integers the single-component setters are called with
Ints == (0 - 1)..MaxN

\* the segments SetSuffix is called with
Segments == { <<"-", "x">>, <<"1">>, <<"a", "\n", "b">> }

SegmentLists == UNION { [1..n -> Segments] : n \in 0..MaxSegs }

\* the calls of Set: those the documentation shows, and one with negative
\* components
SetCalls ==
  { <<1, 0, 0, <<>>>>, <<1, 2, 0, <<>>>>, <<1, 0, 3, <<>>>>, <<1, 2, 3, <<>>>>,
    <<0, 0, 0, << <<"r", "c">>, <<"1">> >> >>,
    <<0 - 1, 0, 0 - 2, <<>>>> }

\* the texts SetFromString and NewVersionFromString are called with on the
\* receiver's side
Texts ==
  { <<"g", "a", "r", "b", "a", "g", "e">>,
    <<"v", "1", ".", "2", ".", "3", "-", "b", "e", "t", "a">>,
    <<"1", "-", "-", "x">>,
    <<"v", "X">> }

-----------------------------------------------------------------------------
(* The receiver scenario: one Version v built by NewVersion(), on which the *)
(* caller makes calls; the object a call allocates is dropped by the caller *)
(* before the next call.                                                    *)

\* the receiver pointer
v == "v"

\* the pointer to the object allocated by the last call
version == "version"

Receiver == heap[v]

\* v.SetFromString(s) with a slip: the parsed object is returned even when
\* the parse failed
SetFromStringIgnoresError(h, s) ==
  LET r == NewVersionFromString(s) IN
  [heap |-> [i \in {v, version} |-> IF i = v THEN h[v] ELSE r.version],
   ret |-> version]

\* v.SetFromString(s) on heap h: the heap after the call and the pointer
\* returned.  The receiver is returned when the parse fails, the freshly
\* parsed object when it succeeds; no field of the receiver is assigned.
SetFromString(h, s) ==
  LET r == NewVersionFromString(s) IN
  IF r.err # ""
  THEN [heap |-> [i \in {v} |-> h[v]], ret |-> v]
  ELSE [heap |-> [i \in {v, version} |-> IF i = v THEN h[v] ELSE r.version],
        ret |-> version]

Init ==
  /\ heap = [i \in {v} |-> NewVersion]
  /\ op = "NewVersion"
  /\ ret = v
  /\ err = ""
  /\ str = <<>>
  /\ elems = <<>>
  /\ out = <<>>
  /\ input = <<>>
  /\ pc = "idle"
  /\ parsed = NewVersion
  /\ perr = ""
  /\ text = <<>>
  /\ reparsed = NewVersion
  /\ rerr = ""
  /\ valid = FALSE
  /\ versions = <<>>
  /\ sorted = FALSE

\* a setter call: the receiver's fields become now, the receiver is returned
Setter(name, now, segs) ==
  /\ heap' = [i \in {v} |-> now]
  /\ op' = name
  /\ ret' = v
  /\ err' = ""
  /\ str' = <<>>
  /\ elems' = segs
  /\ out' = <<>>
  /\ UNCHANGED <<parseVars, sortVars>>

CallSetMajor == \E n \in Ints : Setter("SetMajor", SetMajor(Receiver, n), <<>>)

CallSetMinor == \E n \in Ints : Setter("SetMinor", SetMinor(Receiver, n), <<>>)

CallSetPatch == \E n \in Ints : Setter("SetPatch", SetPatch(Receiver, n), <<>>)

CallSetSuffix ==
  \E segs \in SegmentLists : Setter("SetSuffix", SetSuffix(Receiver, segs), segs)

CallSet ==
  \E c \in SetCalls : Setter("Set", Set(Receiver, c[1], c[2], c[3], c[4]), c[4])

CallSetFromString ==
  \E s \in Texts :
    LET r == SetFromString(heap, s) IN
    /\ heap' = r.heap
    /\ op' = "SetFromString"
    /\ ret' = r.ret
    /\ err' = ""
    /\ str' = s
    /\ elems' = <<>>
    /\ out' = <<>>
    /\ UNCHANGED <<parseVars, sortVars>>

CallString ==
  /\ heap' = [i \in {v} |-> Receiver]
  /\ op' = "String"
  /\ ret' = "nil"
  /\ err' = ""
  /\ str' = <<>>
  /\ elems' = <<>>
  /\ out' = String(Receiver)
  /\ UNCHANGED <<parseVars, sortVars>>

\* NewVersionFromString on one of Texts or on the text String just returned
CallNewVersionFromString ==
  \E s \in Texts \cup {out} :
    LET r == NewVersionFromString(s) IN
    /\ heap' = [i \in {v, version} |-> IF i = v THEN Receiver ELSE r.version]
    /\ op' = "NewVersionFromString"
    /\ ret' = version
    /\ err' = r.err
    /\ str' = s
    /\ elems' = <<>>
    /\ out' = <<>>
    /\ UNCHANGED <<parseVars, sortVars>>

CallNewVersion ==
  /\ heap' = [i \in {v, version} |-> IF i = v THEN Receiver ELSE NewVersion]
  /\ op' = "NewVersion"
  /\ ret' = version
  /\ err' = ""
  /\ str' = <<>>
  /\ elems' = <<>>
  /\ out' = <<>>
  /\ UNCHANGED <<parseVars, sortVars>>

Next ==
  \/ CallSetMajor
  \/ CallSetMinor
  \/ CallSetPatch
  \/ CallSetSuffix
  \/ CallSet
  \/ CallSetFromString
  \/ CallString
  \/ CallNewVersionFromString
  \/ CallNewVersion

Spec == Init /\ [][Next]_vars

-----------------------------------------------------------------------------
(* The parse scenario: a caller parses a text, asks whether it is valid,   *)
(* and, when the parse returned no error, formats the result and parses    *)
(* the formatted text again.                                               *)

Alphabet == {"v", "V", "0", "1", ".", "-", "x", "\n"}

ShortTexts == UNION { [1..n -> Alphabet] : n \in 0..MaxLen }

\* decimal digits of 2^63, the least number Atoi rejects as out of range
BigRun ==
  <<"9","2","2","3","3","7","2","0","3","6","8","5","4","7","7","5","8","0","8">>

Runs == { <<"1">>, <<"0", "2">>, BigRun }

RunLists == UNION { [1..n -> Runs] : n \in 1..MaxGroups }

Prefixes == { <<>>, <<"v">>, <<"x">> }

Remainders == { <<>>, <<"-", "x">>, <<"-", "-", "x">>, <<".">> }

\* texts made of a prefix, dot-separated digit runs and a remainder
StructuredTexts ==
  { pre \o Join(runs, <<".">>) \o post :
      pre \in Prefixes, runs \in RunLists, post \in Remainders }

Inputs == ShortTexts \cup StructuredTexts

InitParse ==
  /\ input \in Inputs
  /\ pc = "start"
  /\ parsed = NewVersion
  /\ perr = ""
  /\ text = <<>>
  /\ reparsed = NewVersion
  /\ rerr = ""
  /\ valid = FALSE
  /\ heap = [i \in {v} |-> NewVersion]
  /\ op = "NewVersion"
  /\ ret = v
  /\ err = ""
  /\ str = <<>>
  /\ elems = <<>>
  /\ out = <<>>
  /\ versions = <<>>
  /\ sorted = FALSE

ParseInput ==
  /\ pc = "start"
  /\ LET r == NewVersionFromString(input) IN
       /\ parsed' = r.version
       /\ perr' = r.err
  /\ pc' = "parsed"
  /\ UNCHANGED <<input, text, reparsed, rerr, valid, objVars, sortVars>>

CheckValid ==
  /\ pc = "parsed"
  /\ valid' = IsValidVersionString(input)
  /\ pc' = "checked"
  /\ UNCHANGED <<input, parsed, perr, text, reparsed, rerr, objVars, sortVars>>

FormatParsed ==
  /\ pc = "checked"
  /\ perr = ""
  /\ text' = String(parsed)
  /\ pc' = "formatted"
  /\ UNCHANGED <<input, parsed, perr, reparsed, rerr, valid, objVars, sortVars>>

ParseFormatted ==
  /\ pc = "formatted"
  /\ LET r == NewVersionFromString(text) IN
       /\ reparsed' = r.version
       /\ rerr' = r.err
  /\ pc' = "done"
  /\ UNCHANGED <<input, parsed, perr, text, valid, objVars, sortVars>>

NextParse ==
  \/ ParseInput
  \/ CheckValid
  \/ FormatParsed
  \/ ParseFormatted

SpecParse == InitParse /\ [][NextParse]_vars

-----------------------------------------------------------------------------
(* The sort scenario: a caller builds a slice of Versions and sorts it.    *)

\* the Versions the slice is built from
SortVals ==
  { Ver(0, 0, 0, <<>>), Ver(0, 0, 0, <<"a">>), Ver(0, 0, 0, <<"a", "b">>),
    Ver(0, 0, 0, <<"b">>), Ver(0, 0, 1, <<>>), Ver(0, 1, 0, <<"a">>),
    Ver(0, 1, 1, <<>>), Ver(2, 0, 0, <<>>), Ver(2, 0, 0, <<"-">>),
    Ver(10, 0, 0, <<>>) }

InitSort ==
  /\ versions = <<>>
  /\ sorted = FALSE
  /\ heap = [i \in {v} |-> NewVersion]
  /\ op = "NewVersion"
  /\ ret = v
  /\ err = ""
  /\ str = <<>>
  /\ elems = <<>>
  /\ out = <<>>
  /\ input = <<>>
  /\ pc = "idle"
  /\ parsed = NewVersion
  /\ perr = ""
  /\ text = <<>>
  /\ reparsed = NewVersion
  /\ rerr = ""
  /\ valid = FALSE

AppendVersion ==
  /\ Len(versions) < MaxList
  /\ \E x \in SortVals : versions' = Append(versions, x)
  /\ sorted' = FALSE
  /\ UNCHANGED <<objVars, parseVars>>

CallSortVersions ==
  /\ versions' = SortVersions(versions)
  /\ sorted' = TRUE
  /\ UNCHANGED <<objVars, parseVars>>

NextSort ==
  \/ AppendVersion
  \/ CallSortVersions

SpecSort == InitSort /\ [][NextSort]_vars

-----------------------------------------------------------------------------
(* Properties of the parse scenario *)

LeadsWithHyphen(t) == t # <<>> /\ Head(t) = "-"

\* number of dot-separated digit runs of the text that start at position i
RECURSIVE GroupsFrom(_, _)
GroupsFrom(s, i) ==
  LET e == RunEnd(s, i) IN
  IF MoreDigits(s, e) THEN 1 + GroupsFrom(s, e + 2) ELSE 1

\* the text holds more than three dot-separated numeric groups in a row
MoreThanThreeGroups(s) ==
  \E i \in 1..Len(s) : IsDigit(s[i]) /\ GroupsFrom(s, i) > 3

\* C1: a text with more than three dot-separated numeric groups is rejected:
\* the parse returns an error and IsValidVersionString returns false.
C1_RejectsFourGroups ==
  (pc \in {"checked", "formatted", "done"} /\ MoreThanThreeGroups(input))
    => (perr # "" /\ valid = FALSE)

\* t is one to three dot-separated runs of digits, each within int range
NumericPart(t) ==
  LET pieces == Split(t, ".") IN
  /\ Len(pieces) \in 1..3
  /\ \A i \in 1..Len(pieces) : Atoi(pieces[i]).ok

\* the whole of s is: an optional v or V, a numeric part, and then nothing
\* or a hyphen followed by any text
WholeTextMatches(s) ==
  \E p \in 0..1, e \in 1..Len(s) :
    /\ p = 1 => s[1] \in {"v", "V"}
    /\ p < e
    /\ NumericPart(SubSeq(s, p + 1, e))
    /\ e = Len(s) \/ s[e+1] = "-"

\* C2: the parse succeeds exactly when the whole text matches the grammar
\* (optional v or V, one to three dot-separated digit runs within int range,
\* optionally a hyphen and any suffix).
C2_SucceedsIffWholeTextMatches ==
  pc # "start" => ((perr = "") <=> WholeTextMatches(input))

\* C7: whenever the parse returns an error, the Version returned with it is
\* zero-valued, whatever the kind of the failure.
C7_ZeroVersionOnError ==
  (pc # "start" /\ perr # "") => parsed = NewVersion

\* C5: for every text whose parse succeeds, formatting the result and
\* parsing the formatted text succeeds and returns the same four fields.
C5_NormalizationIdempotent ==
  pc = "done" => (rerr = "" /\ reparsed = parsed)

\* a parsed text that was not in canonical form (leading zeros) and whose
\* captured suffix begins with a hyphen went through format and parse again
C5_Witness ==
  /\ pc = "done"
  /\ LeadsWithHyphen(parsed.suffix)
  /\ parsed.major = 2
  /\ text # input

-----------------------------------------------------------------------------
(* Properties of the receiver scenario *)

\* the text the formatting rule prescribes for a Version
RuleText(ver) ==
  <<"v">> \o Itoa(ver.major)
    \o (IF ver.minor # 0 \/ ver.patch # 0 THEN <<".">> \o Itoa(ver.minor) ELSE <<>>)
    \o (IF ver.patch # 0 THEN <<".">> \o Itoa(ver.patch) ELSE <<>>)
    \o (IF ver.suffix # <<>> THEN <<"-">> \o ver.suffix ELSE <<>>)

\* C3: String yields "v" + major, then "." + minor exactly when minor or
\* patch is non-zero, then "." + patch exactly when patch is non-zero, then
\* "-" + suffix exactly when the suffix is non-empty.
C3_FormatRule ==
  op = "String" => out = RuleText(Receiver)

\* String was called on a Version whose zero minor is forced by the patch
\* and that has a suffix
C3_Witness ==
  /\ op = "String"
  /\ Receiver.minor = 0
  /\ Receiver.patch # 0
  /\ Receiver.suffix # <<>>

NonNegative(ver) == ver.major >= 0 /\ ver.minor >= 0 /\ ver.patch >= 0

HasLineFeed(t) == \E i \in 1..Len(t) : t[i] = "\n"

\* the last call parsed the text String returns for the receiver
ParsedOwnText == op = "NewVersionFromString" /\ str = String(Receiver)

\* C4 as stated: for every Version with non-negative components and any
\* suffix, parsing its formatted text succeeds and returns the same fields.
C4_RoundTripAnySuffix ==
  (ParsedOwnText /\ NonNegative(Receiver))
    => (err = "" /\ heap[ret] = Receiver)

\* C4 amended: for every Version with non-negative components and a suffix
\* that holds no line feed, parsing its formatted text succeeds and returns
\* the same fields.
C4_RoundTripNoLineFeed ==
  (ParsedOwnText /\ NonNegative(Receiver) /\ ~HasLineFeed(Receiver.suffix))
    => (err = "" /\ heap[ret] = Receiver)

\* the formatted text of a Version with a positive patch, a zero minor and a
\* suffix that itself begins with a hyphen was parsed
C4_Witness ==
  /\ ParsedOwnText
  /\ NonNegative(Receiver)
  /\ Receiver.minor = 0
  /\ Receiver.patch > 0
  /\ LeadsWithHyphen(Receiver.suffix)
  /\ ~HasLineFeed(Receiver.suffix)

Setters == {"SetMajor", "SetMinor", "SetPatch", "SetSuffix", "Set"}

\* C8: every mutation operation returns the instance it was called on; after
\* SetFromString with a text that parses, the returned instance is the
\* receiver and the receiver's fields are those of the parse.
C8_MutatorsReturnReceiver ==
  /\ op \in Setters => ret = v
  /\ op = "SetFromString" =>
       /\ ret = v
       /\ NewVersionFromString(str).err = ""
            => Receiver = NewVersionFromString(str).version

\* C9: SetFromString with a text whose parse fails leaves the receiver's
\* four fields as they were, returns the receiver and surfaces no error.
C9_SetFromStringNoOpOnFailure ==
  [][ (op' = "SetFromString" /\ NewVersionFromString(str').err # "")
        => (heap'[v] = heap[v] /\ ret' = v /\ err' = "") ]_vars

\* SetFromString was called with an unparsable text on a receiver that
\* Set(1, 2, 3) had filled
C9_Witness ==
  /\ op = "SetFromString"
  /\ NewVersionFromString(str).err # ""
  /\ Receiver = Ver(1, 2, 3, <<>>)
  /\ ret = v

\* C10 as stated: no Version's suffix begins with a hyphen.
C10_SuffixNeverLeadsWithHyphen ==
  \A i \in DOMAIN heap : ~LeadsWithHyphen(heap[i].suffix)

\* in the text, the numeric part the pattern captures (it starts at the
\* first digit) is directly followed by two hyphens
TwoHyphensAfterNumbers(s) ==
  \E d \in 1..Len(s) :
    /\ IsDigit(s[d])
    /\ \A j \in 1..(d-1) : ~IsDigit(s[j])
    /\ LET e == NumericEnd(s, d) IN
         e + 2 <= Len(s) /\ s[e+1] = "-" /\ s[e+2] = "-"

\* C10 amended: a Version's suffix begins with a hyphen only if SetSuffix or
\* Set was given a first segment that begins with one, or if the Version was
\* parsed from a text whose numeric part is followed by two or more hyphens
\* (one hyphen is removed); NewVersion's suffix is empty and the other
\* setters leave the suffix as it is.
C10_LeadingHyphenOnlyWhenGiven ==
  /\ heap[v].suffix = <<>>
  /\ [][ \A i \in DOMAIN heap' :
           LeadsWithHyphen(heap'[i].suffix) =>
             \/ /\ i = v
                /\ op' \in {"SetSuffix", "Set"}
                /\ elems' # <<>>
                /\ LeadsWithHyphen(elems'[1])
             \/ /\ i = v
                /\ op' \notin {"SetSuffix", "Set"}
                /\ heap'[v].suffix = heap[v].suffix
             \/ /\ i = version
                /\ op' \in {"NewVersionFromString", "SetFromString"}
                /\ TwoHyphensAfterNumbers(str') ]_vars

\* a text with one hyphen between numbers and suffix was parsed into a
\* Version whose suffix does not begin with a hyphen
C10_Witness ==
  /\ op = "NewVersionFromString"
  /\ err = ""
  /\ ~TwoHyphensAfterNumbers(str)
  /\ \E i \in 1..Len(str) : str[i] = "-"
  /\ heap[version].suffix # <<>>
  /\ ~LeadsWithHyphen(heap[version].suffix)

-----------------------------------------------------------------------------
(* Properties of the sort scenario *)

\* a is not after b: major, then minor, then patch numerically, then the
\* suffix in lexicographic order
NotAfter(a, b) ==
  \/ a.major < b.major
  \/ /\ a.major = b.major
     /\ \/ a.minor < b.minor
        \/ /\ a.minor = b.minor
           /\ \/ a.patch < b.patch
              \/ a.patch = b.patch /\ ~StrLess(b.suffix, a.suffix)

Occurrences(list, x) == Cardinality({ i \in 1..Len(list) : list[i] = x })

\* C6: after SortVersions the slice holds the same elements, reordered so
\* that every adjacent pair is non-decreasing in the comparator's order.
C6_SortedPermutation ==
  [][ sorted' =>
        /\ Len(versions') = Len(versions)
        /\ \A x \in SortVals : Occurrences(versions', x) = Occurrences(versions, x)
        /\ \A i \in 1..(Len(versions') - 1) : NotAfter(versions'[i], versions'[i+1])
    ]_vars

\* a slice of three different Versions, among them the same numeric triple
\* without and with a suffix, and majors 2 and 10, was sorted
C6_Witness ==
  /\ sorted
  /\ Len(versions) = 3
  /\ versions[1] = Ver(0, 0, 0, <<>>)
  /\ versions[2] = Ver(0, 0, 0, <<"a">>)
  /\ versions[3].patch = 1

=============================================================================
